---- MODULE Spec2Model ----
(***************************************************************************)
(* A model of the resource-dynamics and agent-decision engine of the       *)
(* ideology simulation: ResourcePatch, EnergyHub and IdeologyAgent of      *)
(* src/model/agent.py, driven by the world's tick (patches, then agents).  *)
(*                                                                         *)
(* Numbers.  Python floats (energy, scar_level, fractional amounts) are    *)
(* fixed-point integers with U units per 1.0; a product of two such        *)
(* numbers is truncated to the unit (Mul), a quotient likewise.            *)
(*                                                                         *)
(* Grid.  The mesa grid is not stored: an object is on the grid exactly    *)
(* when its pos is a cell.  mesa's Grid.remove_agent takes the object out  *)
(* of its cell and sets its pos attribute to None (NoPos here).            *)
(***************************************************************************)
EXTENDS Integers, Sequences, FiniteSets, TLC

VARIABLES
    width, height,              \* grid dimensions (model parameters)
    patches,                    \* patch id -> ResourcePatch fields
    agents,                     \* agent id -> IdeologyAgent fields
    hubs,                       \* the EnergyHub objects placed, as their positions
    renewable_locations,        \* model cache: list of renewable patch cells
    nonrenewable_locations,     \* model cache: list of nonrenewable patch cells
    community_pool,
    total_mined_energy,
    mined_renewable_step,       \* model._mined_renewable_this_step
    mined_nonrenewable_step,    \* model._mined_nonrenewable_this_step
    lastHarvest,                \* the last harvest() call: patch, amount before, request, returned
    lastStep,                   \* the last agent step(): agent, policy run, energy the policy left
    streak,                     \* cell -> consecutive tick ends with two socialists co-located on its renewable patch
    buildLog,                   \* agent id -> cell and tick of its latest build tick, while it stays on the cell
    tick, phase, cursor,        \* the world's position in its tick
    crashed,                    \* an exception left step()
    calls,                      \* calls made on the objects directly (SpecPatch, SpecShare)
    lastCall                    \* the last such call: operation and object

vars == <<width, height, patches, agents, hubs, renewable_locations,
          nonrenewable_locations, community_pool, total_mined_energy,
          mined_renewable_step, mined_nonrenewable_step, lastHarvest, lastStep,
          streak, buildLog, tick, phase, cursor, crashed, calls, lastCall>>

----------------------------------------------------------------------------
(* Bounds of the model *)

MaxTicks == 20
MaxCalls == 5
MaxShares == 3

----------------------------------------------------------------------------
(* Fixed point *)

U == 10 * 10

Min(a, b) == IF a <= b THEN a ELSE b
Max(a, b) == IF a >= b THEN a ELSE b
Abs(a) == IF a < 0 THEN -a ELSE a
Mul(a, b) == (a * b) \div U

NoPos == <<-1, -1>>
None == 0

----------------------------------------------------------------------------
(* Tuning constants *)

\* ResourcePatch.__init__ defaults
max_capacity_default == 5
regen_rate_default == 1

\* server.py model_params defaults
cost_renewable_setup == 5 * U
cost_extract_renewable == 1 * U
cost_extract_nonrenewable == 2 * U
yield_per_mine_renewable == 4
yield_per_mine_nonrenewable == 6
renewable_cooldown_steps == 5
renewable_overuse_trigger == 6
renewable_fatigue_decay == 1

\* model attributes read by agent.py and set by the world
scar_radius == 1
scar_increase_per_unit == U \div 5
scar_decay == U \div 10
scar_max == 3 * U
scar_collapse_threshold == 2 * U
scar_regen_alpha == (3 * U) \div 10
scar_avoid_alpha == U \div 2
tithe_rate == U \div 10
carbon_tax_per_unit == U \div 5
renewable_subsidy_per_unit == U \div 10

\* IdeologyAgent.__init__
initial_energy == 10 * U
share_radius == 1
share_fraction == (6 * U) \div 10
min_keep == 8 * U
help_threshold == 7 * U
renewable_bias == 3
energy_cap == 12 * U
emergency_floor == 4 * U
coop_build_time == 2

\* literals of the policies
upkeep == U \div 2
mining_ticks == 3
capitalist_near == 10
fast_energy == 15 * U
build_min_energy == 3 * U
build_drain == U \div 5
build_cost == 2 * U
rich_margin == 6 * U
avg_energy_switch == 5 * U

Known == {"socialist", "capitalist", "green_capitalist", "green_socialist", "adaptive"}

----------------------------------------------------------------------------
(* The world as one value, so that the handlers compose as functions *)

World == [patches |-> patches, agents |-> agents, hubs |-> hubs,
          renewable_locations |-> renewable_locations,
          nonrenewable_locations |-> nonrenewable_locations,
          community_pool |-> community_pool,
          total_mined_energy |-> total_mined_energy,
          mined_renewable_step |-> mined_renewable_step,
          mined_nonrenewable_step |-> mined_nonrenewable_step,
          lastHarvest |-> lastHarvest,
          width |-> width, height |-> height]

PatchIds(w) == DOMAIN w.patches
AgentIds(w) == DOMAIN w.agents

InGrid(w, pos) == /\ pos[1] >= 0 /\ pos[1] < w.width
                  /\ pos[2] >= 0 /\ pos[2] < w.height

\* grid.out_of_bounds
out_of_bounds(w, pos) == ~InGrid(w, pos)

\* grid.get_cell_list_contents, by class
PatchesAt(w, pos) == {k \in PatchIds(w) : w.patches[k].pos = pos}
AgentsAt(w, pos) == {i \in AgentIds(w) : w.agents[i].pos = pos}
hub_here(w, pos) == \E h \in 1..Len(w.hubs) : w.hubs[h] = pos

\* next((o for o in cell if isinstance(o, ResourcePatch)), None)
PatchHere(w, pos) ==
    IF PatchesAt(w, pos) = {} THEN None
    ELSE CHOOSE k \in PatchesAt(w, pos) : \A j \in PatchesAt(w, pos) : k <= j

\* next((o for o in cell if ResourcePatch and resource_type == rtype and amount > 0), None)
LivePatchAt(w, pos, rtype) ==
    LET S == {k \in PatchesAt(w, pos) :
                 w.patches[k].resource_type = rtype /\ w.patches[k].amount > 0}
    IN IF S = {} THEN None ELSE CHOOSE k \in S : \A j \in S : k <= j

\* grid.get_neighborhood(pos, moore=True, include_center, radius), no torus
Neighborhood(w, pos, radius, include_center) ==
    {c \in (0..(w.width - 1)) \X (0..(w.height - 1)) :
        /\ Abs(c[1] - pos[1]) <= radius
        /\ Abs(c[2] - pos[2]) <= radius
        /\ (include_center \/ c # pos)}

\* list.remove(x): the first occurrence goes; ValueError when absent is swallowed
RECURSIVE ListRemove(_, _)
ListRemove(s, x) ==
    IF s = <<>> THEN <<>>
    ELSE IF Head(s) = x THEN Tail(s)
    ELSE <<Head(s)>> \o ListRemove(Tail(s), x)

InList(s, x) == \E n \in 1..Len(s) : s[n] = x

\* grid.remove_agent(obj): out of the cell, obj.pos = None
GridRemovePatch(w, k) == [w EXCEPT !.patches[k].pos = NoPos]
\* schedule.remove(obj)
ScheduleRemovePatch(w, k) == [w EXCEPT !.patches[k].scheduled = FALSE]

----------------------------------------------------------------------------
(* ResourcePatch *)

\* a constructor that gives every patch, of either type, the regeneration rate
NewPatchRegrowing(rtype, pos, cap) ==
    [resource_type |-> rtype,
     amount |-> cap * U,
     max_capacity |-> cap * U,
     base_regen_rate |-> regen_rate_default * U,
     regen_rate |-> regen_rate_default * U,
     cooldown_remaining |-> 0,
     fatigue |-> 0,
     scar_level |-> 0,
     pos |-> pos,
     scheduled |-> TRUE]

\* ResourcePatch.__init__ followed by the world's placement on the grid
NewPatch(rtype, pos, cap) ==
    [resource_type |-> rtype,
     amount |-> cap * U,
     max_capacity |-> cap * U,
     base_regen_rate |-> IF rtype = "renewable" THEN regen_rate_default * U ELSE 0,
     regen_rate |-> IF rtype = "renewable" THEN regen_rate_default * U ELSE 0,
     cooldown_remaining |-> 0,
     fatigue |-> 0,
     scar_level |-> 0,
     pos |-> pos,
     scheduled |-> TRUE]

\* step(): the scar decay of lines 27-28
ScarAfterDecay(p) ==
    IF p.scar_level > 0 THEN Max(0, p.scar_level - scar_decay) ELSE p.scar_level

\* a collapse test that reads scar_max for the threshold: no patch ever collapses
CollapsesAtMax(p) ==
    p.resource_type = "renewable" /\ ScarAfterDecay(p) >= scar_max

\* step(): the collapse test of line 31, on the decayed scar
Collapses(p) ==
    p.resource_type = "renewable" /\ ScarAfterDecay(p) >= scar_collapse_threshold

\* step(): lines 42-46; self.pos is read after grid.remove_agent cleared it
CollapseCacheSync(w, k) ==
    IF InList(w.renewable_locations, w.patches[k].pos)
    THEN [w EXCEPT !.renewable_locations = ListRemove(@, w.patches[k].pos)]
    ELSE w

\* a cooldown that counts down without stopping the regeneration
RegulateRegrowing(p) ==
    IF p.resource_type # "renewable" THEN p
    ELSE [p EXCEPT !.fatigue = IF @ > 0 THEN Max(0, @ - renewable_fatigue_decay * U) ELSE @,
                   !.cooldown_remaining = IF @ > 0 THEN @ - 1 ELSE @,
                   !.regen_rate =
                       Mul(p.base_regen_rate,
                           Max(0, U - Mul(scar_regen_alpha, p.scar_level)))]

\* step(): lines 49-59, fatigue, cooldown and the scar-reduced regeneration rate
Regulate(p) ==
    IF p.resource_type # "renewable" THEN p
    ELSE LET f == IF p.fatigue > 0
                  THEN Max(0, p.fatigue - renewable_fatigue_decay * U)
                  ELSE p.fatigue
         IN IF p.cooldown_remaining > 0
            THEN [p EXCEPT !.fatigue = f,
                           !.cooldown_remaining = @ - 1,
                           !.regen_rate = 0]
            ELSE [p EXCEPT !.fatigue = f,
                           !.regen_rate =
                               Mul(p.base_regen_rate,
                                   Max(0, U - Mul(scar_regen_alpha, p.scar_level)))]

\* regrowth without the min() of line 62
RegrowUncapped(p) ==
    IF p.regen_rate > 0 THEN [p EXCEPT !.amount = p.amount + p.regen_rate] ELSE p

\* step(): lines 61-62
Regrow(p) ==
    IF p.regen_rate > 0
    THEN [p EXCEPT !.amount = Min(p.max_capacity, p.amount + p.regen_rate)]
    ELSE p

\* ResourcePatch.step
PatchStep(w, k) ==
    LET p0 == w.patches[k]
        p1 == [p0 EXCEPT !.scar_level = ScarAfterDecay(p0)]
        w1 == [w EXCEPT !.patches[k] = p1]
    IN IF Collapses(p0)
       THEN CollapseCacheSync(ScheduleRemovePatch(GridRemovePatch(w1, k), k), k)
       ELSE [w1 EXCEPT !.patches[k] = Regrow(Regulate(p1))]

\* a harvest that hands over whatever is asked
CollectedAsAsked(available, requested) == requested

\* harvest(): line 65
Collected(available, requested) == Min(available, requested)

\* harvest(): lines 76-79
Overuse(p, collected) ==
    IF p.resource_type = "renewable" /\ collected > 0
    THEN LET f == p.fatigue + collected
         IN [p EXCEPT !.fatigue = f,
                      !.cooldown_remaining =
                          IF p.amount <= 0 \/ f >= renewable_overuse_trigger * U
                          THEN Max(@, renewable_cooldown_steps)
                          ELSE @]
    ELSE p

\* a spill that reaches every renewable patch of the grid
SpillEverywhere(w, k, collected) ==
    IF w.patches[k].resource_type = "nonrenewable" /\ collected > 0
    THEN [w EXCEPT !.patches =
            [j \in PatchIds(w) |->
                IF w.patches[j].pos # NoPos /\ w.patches[j].resource_type = "renewable"
                THEN [w.patches[j] EXCEPT !.scar_level =
                         Min(scar_max, @ + Mul(scar_increase_per_unit, collected))]
                ELSE w.patches[j]]]
    ELSE w

\* a spill without the min() of line 89
SpillUncapped(w, k, collected) ==
    IF w.patches[k].resource_type = "nonrenewable" /\ collected > 0
    THEN [w EXCEPT !.patches =
            [j \in PatchIds(w) |->
                IF w.patches[j].pos \in Neighborhood(w, w.patches[k].pos, scar_radius, TRUE)
                   /\ w.patches[j].resource_type = "renewable"
                THEN [w.patches[j] EXCEPT !.scar_level =
                         @ + Mul(scar_increase_per_unit, collected)]
                ELSE w.patches[j]]]
    ELSE w

\* harvest(): lines 82-89, the scar a nonrenewable harvest spills on the renewables around
Spill(w, k, collected) ==
    IF w.patches[k].resource_type = "nonrenewable" /\ collected > 0
    THEN LET bump == Mul(scar_increase_per_unit, collected)
             cells == Neighborhood(w, w.patches[k].pos, scar_radius, TRUE)
         IN [w EXCEPT !.patches =
                [j \in PatchIds(w) |->
                    IF w.patches[j].pos \in cells /\ w.patches[j].resource_type = "renewable"
                    THEN [w.patches[j] EXCEPT !.scar_level = Min(scar_max, @ + bump)]
                    ELSE w.patches[j]]]
    ELSE w

\* ResourcePatch.harvest(amount); the value returned is lastHarvest.collected
Harvest(w, k, requested) ==
    LET p0 == w.patches[k]
        collected == Collected(p0.amount, requested)
        p1 == Overuse([p0 EXCEPT !.amount = @ - collected], collected)
        ren == p0.resource_type = "renewable"
        w1 == [w EXCEPT
                 !.patches[k] = p1,
                 !.total_mined_energy = @ + collected,
                 !.mined_renewable_step = IF collected > 0 /\ ren THEN @ + collected ELSE @,
                 !.mined_nonrenewable_step = IF collected > 0 /\ ~ren THEN @ + collected ELSE @,
                 !.lastHarvest = [patch |-> k, before |-> p0.amount,
                                  requested |-> requested, collected |-> collected]]
    IN Spill(w1, k, collected)

----------------------------------------------------------------------------
(* IdeologyAgent: helpers *)

\* IdeologyAgent.__init__ followed by the world's placement on the grid
NewAgent(ideology, pos) ==
    [ideology |-> ideology,
     energy |-> initial_energy,
     total_collected_energy |-> 0,
     mining |-> FALSE,
     mining_counter |-> 0,
     mining_target |-> None,
     renewable_setup_paid |-> {},
     share_fraction |-> share_fraction,
     build_counter |-> 0,
     intent_build |-> FALSE,
     pos |-> pos,
     scheduled |-> TRUE]

manhattan_distance(p1, p2) == Abs(p1[1] - p2[1]) + Abs(p1[2] - p2[2])

Sgn(d) == IF d > 0 THEN 1 ELSE IF d < 0 THEN -1 ELSE 0

\* one pass of the loop of move_towards
StepToward(w, pos, target) ==
    IF out_of_bounds(w, <<pos[1] + Sgn(target[1] - pos[1]), pos[2] + Sgn(target[2] - pos[2])>>)
    THEN pos
    ELSE <<pos[1] + Sgn(target[1] - pos[1]), pos[2] + Sgn(target[2] - pos[2])>>

\* IdeologyAgent.move_towards
move_towards(w, i, target, speed) ==
    [w EXCEPT !.agents[i].pos =
        IF speed >= 2 THEN StepToward(w, StepToward(w, @, target), target)
        ELSE StepToward(w, @, target)]

\* IdeologyAgent.idle_wander
idle_wander(w, i) == move_towards(w, i, <<w.width \div 2, w.height \div 2>>, 1)

\* a crowd test that sees no agent
CrowdedNever(w, pos) == FALSE

\* any(isinstance(a, IdeologyAgent) for a in cell)
Crowded(w, pos) == AgentsAt(w, pos) # {}

\* the scans "if best is None or d < best": among the entries C of a cache, the
\* first of the least distance ds; 0 when C is empty
LeastOf(ds, C) ==
    IF C = {} THEN 0
    ELSE CHOOSE n \in C : \A m \in C : ds[n] < ds[m] \/ (ds[n] = ds[m] /\ n <= m)

RECURSIVE SumEnergy(_, _)
SumEnergy(w, S) ==
    IF S = {} THEN 0
    ELSE w.agents[CHOOSE x \in S : \A y \in S : x <= y].energy
         + SumEnergy(w, S \ {CHOOSE x \in S : \A y \in S : x <= y})

\* the mean energy of the agents S is above 5.0
MeanAbove(w, S) == S # {} /\ SumEnergy(w, S) > avg_energy_switch * Cardinality(S)

\* model.average_energy() > 5.0, over the agents in the schedule
AvgEnergyHigh(w) == MeanAbove(w, {i \in AgentIds(w) : w.agents[i].scheduled})

\* start mining: mining, mining_counter, mining_target
StartMining(w, i, k) ==
    [w EXCEPT !.agents[i].mining = TRUE,
              !.agents[i].mining_counter = mining_ticks,
              !.agents[i].mining_target = k]

\* self.mining = False; self.mining_target = None
StopMining(w, i) ==
    [w EXCEPT !.agents[i].mining = FALSE,
              !.agents[i].mining_target = None]

\* a countdown that loses two per step
CountDownByTwo(w, i) == [w EXCEPT !.agents[i].mining_counter = @ - 2]

\* self.mining_counter -= 1
CountDown(w, i) == [w EXCEPT !.agents[i].mining_counter = @ - 1]

\* self.energy += net; if net > 0: self.total_collected_energy += net
Earn(w, i, net) ==
    [w EXCEPT !.agents[i].energy = @ + net,
              !.agents[i].total_collected_energy = IF net > 0 THEN @ + net ELSE @]

\* self.energy -= cost_renewable_setup; self.renewable_setup_paid.add(patch.unique_id)
PaySetup(w, i, k) ==
    [w EXCEPT !.agents[i].energy = @ - cost_renewable_setup,
              !.agents[i].renewable_setup_paid = @ \cup {k}]

IsRenewable(w, k) == w.patches[k].resource_type = "renewable"

\* desired and op_cost; a hub adds 1 to the renewable yield and takes 1 off its cost
Desired(w, k, hub) ==
    IF IsRenewable(w, k) THEN yield_per_mine_renewable + (IF hub THEN 1 ELSE 0)
    ELSE yield_per_mine_nonrenewable

OpCost(w, k, hub) ==
    IF IsRenewable(w, k) THEN Max(0, cost_extract_renewable - (IF hub THEN U ELSE 0))
    ELSE cost_extract_nonrenewable

\* the value the last harvest() returned
Gained(w) == w.lastHarvest.collected

\* capitalist_step lines 177-183: the cache entry removed is the agent's own cell
RemoveDepletedAtSelf(w, k, i) ==
    IF w.patches[k].amount <= 0 /\ w.patches[k].resource_type = "nonrenewable"
    THEN [ScheduleRemovePatch(GridRemovePatch(w, k), k)
            EXCEPT !.nonrenewable_locations = ListRemove(@, w.agents[i].pos)]
    ELSE w

\* the "if patch.pos in ...: remove(patch.pos)" of lines 277-281, 377-379, 457-461
CacheDropPatchPos(w, k) ==
    IF InList(w.nonrenewable_locations, w.patches[k].pos)
    THEN [w EXCEPT !.nonrenewable_locations = ListRemove(@, w.patches[k].pos)]
    ELSE w

\* lines 274-281, 374-379, 454-461: patch.pos is read after grid.remove_agent cleared it
RemoveDepletedAtPatch(w, k) ==
    IF w.patches[k].amount <= 0 /\ w.patches[k].resource_type = "nonrenewable"
    THEN CacheDropPatchPos(ScheduleRemovePatch(GridRemovePatch(w, k), k), k)
    ELSE w

\* tithe = max(0.0, min(tithe_rate * net_gain, self.energy)), on a positive net gain
Tithe(energy, net_gain) ==
    IF net_gain > 0 THEN Max(0, Min(Mul(tithe_rate, net_gain), energy)) ELSE 0

\* a wealth cap that skims nothing
SkimNothing(energy) == 0

\* skim = self.energy - self.energy_cap, when above the cap
Skim(energy) == IF energy > energy_cap THEN energy - energy_cap ELSE 0

\* lines 283-293 and 463-473: the tithe, then the skim above energy_cap
TitheAndSkim(w, i, net_gain) ==
    [w EXCEPT
       !.agents[i].energy = (@ - Tithe(@, net_gain)) - Skim(@ - Tithe(@, net_gain)),
       !.community_pool = @ + Tithe(w.agents[i].energy, net_gain)
                            + Skim(w.agents[i].energy - Tithe(w.agents[i].energy, net_gain))]

\* the order in which redistribute_to_neighbors meets the agents around it:
\* neighbourhood cells row by row, the agents of a cell in the order of their ids
NeedyKey(w, a) ==
    (w.agents[a].pos[2] * w.width + w.agents[a].pos[1]) * (Cardinality(AgentIds(w)) + 1) + a

FirstNeedy(w, S) == CHOOSE x \in S : \A y \in S : NeedyKey(w, x) <= NeedyKey(w, y)

RECURSIVE InOrder(_, _)
InOrder(w, S) ==
    IF S = {} THEN <<>>
    ELSE <<FirstNeedy(w, S)>> \o InOrder(w, S \ {FirstNeedy(w, S)})

\* deficits = [help_threshold - a.energy for a in needy]; total_def = sum(deficits)
Deficit(w, a) == help_threshold - w.agents[a].energy

RECURSIVE SumDeficit(_, _)
SumDeficit(w, needy) ==
    IF needy = <<>> THEN 0
    ELSE Deficit(w, Head(needy)) + SumDeficit(w, Tail(needy))

\* a transfer that hands the receiver half of what the giver loses
TransferHalf(w, i, a, share_i) ==
    [w EXCEPT !.agents[a].energy = @ + share_i \div 2, !.agents[i].energy = @ - share_i]

\* a.energy += share_i; self.energy -= share_i
Transfer(w, i, a, share_i) ==
    [w EXCEPT !.agents[a].energy = @ + share_i, !.agents[i].energy = @ - share_i]

\* the loop of lines 602-607; w0 is the world the deficits were taken in
RECURSIVE Hand(_, _, _, _, _, _)
Hand(w, i, needy, w0, give_pool, total_def) ==
    IF needy = <<>> THEN w
    ELSE IF w.agents[i].energy - (give_pool * Deficit(w0, Head(needy))) \div total_def <= min_keep
    THEN Transfer(w, i, Head(needy), (give_pool * Deficit(w0, Head(needy))) \div total_def)
    ELSE Hand(Transfer(w, i, Head(needy), (give_pool * Deficit(w0, Head(needy))) \div total_def),
              i, Tail(needy), w0, give_pool, total_def)

\* lines 596-607, on the needy agents found
Share(w, i, needy, give_pool, total_def) ==
    IF needy = <<>> \/ total_def <= 0 THEN w
    ELSE Hand(w, i, needy, w, give_pool, total_def)

\* lines 590-595: the needy agents of the neighbourhood
Needy(w, i) ==
    InOrder(w, {a \in AgentIds(w) :
                  /\ a # i
                  /\ w.agents[a].pos \in Neighborhood(w, w.agents[i].pos, share_radius, FALSE)
                  /\ w.agents[a].energy < help_threshold})

\* a give_pool taken from the whole energy instead of the surplus
ShareOutOfEnergy(w, i, needy) ==
    Share(w, i, needy, Mul(w.agents[i].share_fraction, w.agents[i].energy),
          SumDeficit(w, needy))

\* lines 586-589, 596-607: give_pool from the surplus, handed to the needy
ShareOut(w, i, needy) ==
    Share(w, i, needy,
          Mul(w.agents[i].share_fraction, Max(0, w.agents[i].energy - min_keep)),
          SumDeficit(w, needy))

\* IdeologyAgent.redistribute_to_neighbors
redistribute_to_neighbors(w, i) ==
    IF Max(0, w.agents[i].energy - min_keep) <= 0 THEN w
    ELSE ShareOut(w, i, Needy(w, i))

CacheOf(w, rtype) ==
    IF rtype = "renewable" THEN w.renewable_locations ELSE w.nonrenewable_locations

\* the entries of a cache with a live patch of the type and no agent on the cell
Available(w, rtype) ==
    {n \in 1..Len(CacheOf(w, rtype)) :
        /\ LivePatchAt(w, CacheOf(w, rtype)[n], rtype) # None
        /\ ~Crowded(w, CacheOf(w, rtype)[n])}

\* _nearest_patch: the distance compared, with the renewable bias
BiasedDistance(w, i, rtype, pos) ==
    IF rtype = "renewable"
    THEN Max(0, manhattan_distance(w.agents[i].pos, pos) - renewable_bias)
    ELSE manhattan_distance(w.agents[i].pos, pos)

\* _nearest_patch: the index in the cache of the patch found, 0 for none
NearestIndex(w, i, rtype) ==
    LeastOf([n \in 1..Len(CacheOf(w, rtype)) |->
                BiasedDistance(w, i, rtype, CacheOf(w, rtype)[n])],
            Available(w, rtype))

NearestResult(w, i, rtype, n) ==
    IF n = 0 THEN [found |-> FALSE, pos |-> NoPos, dist |-> 1000000000]
    ELSE [found |-> TRUE, pos |-> CacheOf(w, rtype)[n],
          dist |-> BiasedDistance(w, i, rtype, CacheOf(w, rtype)[n])]

\* IdeologyAgent._nearest_patch: (best_pos, best_dist); found stands for best_patch
_nearest_patch(w, i, rtype) == NearestResult(w, i, rtype, NearestIndex(w, i, rtype))

\* the agents counted as partners of a build at pos
Partners(w, pos) ==
    {a \in AgentsAt(w, pos) : w.agents[a].ideology = "socialist" /\ w.agents[a].intent_build}

\* a completion that places the hub twice
BuildTickTwice(w, i) ==
    IF w.agents[i].build_counter >= coop_build_time
    THEN [w EXCEPT !.hubs = Append(Append(@, w.agents[i].pos), w.agents[i].pos),
                   !.agents[i].energy = @ - build_cost,
                   !.agents[i].build_counter = 0,
                   !.agents[i].intent_build = FALSE]
    ELSE w

\* a build that completes on its first tick
BuildTickAtOnce(w, i) ==
    IF w.agents[i].build_counter >= 1
    THEN [w EXCEPT !.hubs = Append(@, w.agents[i].pos),
                   !.agents[i].energy = @ - build_cost,
                   !.agents[i].build_counter = 0,
                   !.agents[i].intent_build = FALSE]
    ELSE w

\* _maybe_build_hub_or_mine lines 544-553: one more build tick is done
BuildTick(w, i) ==
    IF w.agents[i].build_counter >= coop_build_time
    THEN [w EXCEPT !.hubs = Append(@, w.agents[i].pos),
                   !.agents[i].energy = @ - build_cost,
                   !.agents[i].build_counter = 0,
                   !.agents[i].intent_build = FALSE]
    ELSE w

\* a build that one agent signalling intent is enough for
BuildOrMineAlone(w, i, k) ==
    IF Cardinality(Partners(w, w.agents[i].pos)) >= 1 /\ w.agents[i].energy >= build_min_energy
    THEN BuildTick([w EXCEPT !.agents[i].build_counter = @ + 1,
                             !.agents[i].energy = @ - build_drain], i)
    ELSE StartMining([w EXCEPT !.agents[i].build_counter = 0], i, k)

\* _maybe_build_hub_or_mine lines 539-560, the intent being signalled
BuildOrMine(w, i, k) ==
    IF Cardinality(Partners(w, w.agents[i].pos)) >= 2 /\ w.agents[i].energy >= build_min_energy
    THEN BuildTick([w EXCEPT !.agents[i].build_counter = @ + 1,
                             !.agents[i].energy = @ - build_drain], i)
    ELSE StartMining([w EXCEPT !.agents[i].build_counter = 0], i, k)

MaybeBuildOn(w, i, k) ==
    IF k = None THEN w
    ELSE IF IsRenewable(w, k) /\ ~hub_here(w, w.agents[i].pos)
    THEN BuildOrMine([w EXCEPT !.agents[i].intent_build = TRUE], i, k)
    ELSE StartMining(w, i, k)

\* IdeologyAgent._maybe_build_hub_or_mine
_maybe_build_hub_or_mine(w, i) == MaybeBuildOn(w, i, PatchHere(w, w.agents[i].pos))

\* IdeologyAgent._green_profit_score: the estimate est_net, before the division by d + 1
GreenEstimate(w, k) ==
    IF IsRenewable(w, k)
    THEN (yield_per_mine_renewable * U - cost_extract_renewable)
         + renewable_subsidy_per_unit * yield_per_mine_renewable
         - Mul(scar_avoid_alpha, w.patches[k].scar_level)
    ELSE (yield_per_mine_nonrenewable * U - cost_extract_nonrenewable)
         - carbon_tax_per_unit * yield_per_mine_nonrenewable

\* score(c1) > score(c2) for est_net / (d + 1), the divisors being positive
ScoreAbove(w, i, c1, c2) ==
    GreenEstimate(w, c1.patch) * (manhattan_distance(w.agents[i].pos, c2.pos) + 1)
      > GreenEstimate(w, c2.patch) * (manhattan_distance(w.agents[i].pos, c1.pos) + 1)

\* the candidates of a green scan over one cache, in the order scanned
GreenCandidates(w, rtype, skip_crowded) ==
    SelectSeq([n \in 1..Len(CacheOf(w, rtype)) |->
                  [pos |-> CacheOf(w, rtype)[n],
                   patch |-> LivePatchAt(w, CacheOf(w, rtype)[n], rtype)]],
              LAMBDA c : c.patch # None /\ ~(skip_crowded /\ Crowded(w, c.pos)))

\* "if s > best_score": the first candidate of the greatest score, 0 for none
GreenBest(w, i, cands) ==
    IF cands = <<>> THEN 0
    ELSE CHOOSE n \in 1..Len(cands) :
           \A m \in 1..Len(cands) :
              IF m < n THEN ScoreAbove(w, i, cands[n], cands[m])
              ELSE ~ScoreAbove(w, i, cands[m], cands[n])

GreenPick(w, i, cands) ==
    IF GreenBest(w, i, cands) = 0 THEN NoPos ELSE cands[GreenBest(w, i, cands)].pos

----------------------------------------------------------------------------
(* IdeologyAgent: the policies *)

\* capitalist_step lines 159-183: the payoff on the mining target k
CapitalistEarn(w, i, k) == Earn(w, i, Gained(w) - OpCost(w, k, FALSE))

CapitalistSetup(w, i, k) ==
    IF IsRenewable(w, k) /\ k \notin w.agents[i].renewable_setup_paid
    THEN PaySetup(w, i, k)
    ELSE w

CapitalistPayoff(w, i, k) ==
    RemoveDepletedAtSelf(
        CapitalistEarn(Harvest(CapitalistSetup(w, i, k), k, Desired(w, k, FALSE) * U), i, k),
        k, i)

\* capitalist_step lines 155-186: the countdown ran out
CapitalistResolve(w, i) ==
    IF w.agents[i].mining_target # None
       /\ w.agents[i].mining_target \in PatchesAt(w, w.agents[i].pos)
    THEN StopMining(CapitalistPayoff(w, i, w.agents[i].mining_target), i)
    ELSE StopMining(w, i)

\* capitalist_step lines 206-225, on the nearest entries n and r of the two caches
CapitalistChoice(w, i, n, r) ==
    IF n # 0 /\ manhattan_distance(w.agents[i].pos, w.nonrenewable_locations[n]) <= capitalist_near
    THEN w.nonrenewable_locations[n]
    ELSE IF r # 0 THEN w.renewable_locations[r]
    ELSE IF n # 0 THEN w.nonrenewable_locations[n]
    ELSE NoPos

\* capitalist_step lines 189-225: best_patch_pos, NoPos for None
CapitalistTarget(w, i) ==
    CapitalistChoice(w, i,
        LeastOf([n \in 1..Len(w.nonrenewable_locations) |->
                    manhattan_distance(w.agents[i].pos, w.nonrenewable_locations[n])],
                Available(w, "nonrenewable")),
        LeastOf([n \in 1..Len(w.renewable_locations) |->
                    manhattan_distance(w.agents[i].pos, w.renewable_locations[n])],
                Available(w, "renewable")))

\* lines 231-235 and 413-416: on the target, the agent starts mining the patch of the cell
MineOnArrival(w, i, best) ==
    IF w.agents[i].pos = best THEN StartMining(w, i, PatchHere(w, best)) ELSE w

\* capitalist_step lines 228-235
CapitalistGo(w, i, best) ==
    IF best = NoPos THEN w
    ELSE MineOnArrival(
            move_towards(w, i, best, IF w.agents[i].energy > fast_energy THEN 2 ELSE 1), i, best)

\* IdeologyAgent.capitalist_step
capitalist_step(w, i) ==
    IF w.agents[i].mining
    THEN IF w.agents[i].mining_counter - 1 <= 0
         THEN CapitalistResolve(CountDown(w, i), i)
         ELSE CountDown(w, i)
    ELSE CapitalistGo(w, i, CapitalistTarget(w, i))

\* socialist_step lines 267-271
SocialistNet(w, k, hub) == Gained(w) - OpCost(w, k, hub)

SocialistSetup(w, i, k) ==
    IF IsRenewable(w, k) /\ k \notin w.agents[i].renewable_setup_paid
    THEN PaySetup(w, i, k)
    ELSE w

SocialistTithe(w, i, k, hub) == TitheAndSkim(w, i, SocialistNet(w, k, hub))

SocialistEarn(w, i, k, hub) == Earn(w, i, SocialistNet(w, k, hub))

\* socialist_step lines 248-293: the payoff on the patch k of the agent's cell
SocialistPayoff(w, i, k, hub) ==
    SocialistTithe(
        RemoveDepletedAtPatch(
            SocialistEarn(Harvest(SocialistSetup(w, i, k), k, Desired(w, k, hub) * U), i, k, hub),
            k),
        i, k, hub)

\* the setup cost cannot be paid: lines 251-259 and 431-439 leave the step
CannotSetUp(w, i, k) ==
    /\ k # None
    /\ IsRenewable(w, k)
    /\ k \notin w.agents[i].renewable_setup_paid
    /\ w.agents[i].energy < cost_renewable_setup

SocialistResolveOn(w, i, k) ==
    IF CannotSetUp(w, i, k) THEN StopMining(w, i)
    ELSE IF k = None THEN redistribute_to_neighbors(StopMining(w, i), i)
    ELSE redistribute_to_neighbors(
            StopMining(SocialistPayoff(w, i, k, hub_here(w, w.agents[i].pos)), i), i)

\* socialist_step lines 242-299: the countdown ran out
SocialistResolve(w, i) == SocialistResolveOn(w, i, PatchHere(w, w.agents[i].pos))

\* socialist_step lines 304-322, on the nearest renewable r and nonrenewable n
SocialistChoice(w, i, r, n, high) ==
    IF w.agents[i].energy < emergency_floor
    THEN IF ~r.found /\ ~n.found THEN NoPos
         ELSE IF ~n.found \/ (r.found /\ r.dist <= n.dist) THEN r.pos ELSE n.pos
    ELSE IF high
         THEN IF r.found THEN r.pos ELSE IF n.found THEN n.pos ELSE NoPos
         ELSE IF n.found THEN n.pos ELSE IF r.found THEN r.pos ELSE NoPos

\* socialist_step lines 304-322: the target, NoPos when the agent wanders instead
SocialistTarget(w, i) ==
    SocialistChoice(w, i, _nearest_patch(w, i, "renewable"),
                    _nearest_patch(w, i, "nonrenewable"), AvgEnergyHigh(w))

\* sharing on the move by any agent with a surplus
ShareIfSurplus(w, i) ==
    IF w.agents[i].energy > min_keep
    THEN redistribute_to_neighbors(w, i)
    ELSE w

\* opportunistic sharing while travelling: lines 333-334 and 508-509
ShareIfRich(w, i) ==
    IF w.agents[i].energy > min_keep + rich_margin
    THEN redistribute_to_neighbors(w, i)
    ELSE w

\* socialist_step lines 328-334, after the move
SocialistArrive(w, i, target) ==
    IF w.agents[i].pos = target THEN _maybe_build_hub_or_mine(w, i)
    ELSE ShareIfRich(w, i)

\* socialist_step lines 324-334
SocialistGo(w, i, target) ==
    IF target = NoPos THEN idle_wander(w, i)
    ELSE SocialistArrive(move_towards(w, i, target, 1), i, target)

\* IdeologyAgent.socialist_step
socialist_step(w, i) ==
    IF w.agents[i].mining
    THEN IF w.agents[i].mining_counter - 1 <= 0
         THEN SocialistResolve(CountDown(w, i), i)
         ELSE CountDown(w, i)
    ELSE SocialistGo(w, i, SocialistTarget(w, i))

\* capitalist_green_step lines 346-348: setup is paid only when it can be
GreenCapitalistSetup(w, i, k) ==
    IF IsRenewable(w, k) /\ k \notin w.agents[i].renewable_setup_paid
       /\ w.agents[i].energy >= cost_renewable_setup
    THEN PaySetup(w, i, k)
    ELSE w

\* capitalist_green_step lines 359-364: the tax on a nonrenewable harvest
CarbonTax(w, k) ==
    IF Gained(w) > 0 /\ ~IsRenewable(w, k) THEN Mul(carbon_tax_per_unit, Gained(w)) ELSE 0

\* capitalist_green_step lines 365-367: the subsidy on a renewable harvest
Subsidy(w, k) ==
    IF Gained(w) > 0 /\ IsRenewable(w, k) THEN Mul(renewable_subsidy_per_unit, Gained(w)) ELSE 0

\* capitalist_green_step lines 356-371
GreenCapitalistEarn(w, i, k) ==
    [Earn(w, i, Gained(w) - OpCost(w, k, FALSE) - CarbonTax(w, k) + Subsidy(w, k))
        EXCEPT !.community_pool = @ + Max(0, CarbonTax(w, k))]

GreenCapitalistPayoff(w, i, k) ==
    RemoveDepletedAtPatch(
        GreenCapitalistEarn(
            Harvest(GreenCapitalistSetup(w, i, k), k, Desired(w, k, FALSE) * U), i, k),
        k)

GreenCapitalistResolveOn(w, i, k) ==
    IF k = None THEN StopMining(w, i)
    ELSE StopMining(GreenCapitalistPayoff(w, i, k), i)

\* capitalist_green_step lines 340-382: the countdown ran out
GreenCapitalistResolve(w, i) == GreenCapitalistResolveOn(w, i, PatchHere(w, w.agents[i].pos))

\* capitalist_green_step lines 386-408: best_pos, NoPos for None
GreenCapitalistTarget(w, i) ==
    GreenPick(w, i, GreenCandidates(w, "renewable", TRUE)
                      \o GreenCandidates(w, "nonrenewable", TRUE))

\* capitalist_green_step lines 411-418
GreenCapitalistGo(w, i, best) ==
    IF best = NoPos THEN idle_wander(w, i)
    ELSE MineOnArrival(
            move_towards(w, i, best, IF w.agents[i].energy > fast_energy THEN 2 ELSE 1), i, best)

\* a green capitalist that drifts to the centre while its countdown runs
capitalist_green_step_drifting(w, i) ==
    IF w.agents[i].mining
    THEN IF w.agents[i].mining_counter - 1 <= 0
         THEN GreenCapitalistResolve(CountDown(w, i), i)
         ELSE idle_wander(CountDown(w, i), i)
    ELSE GreenCapitalistGo(w, i, GreenCapitalistTarget(w, i))

\* IdeologyAgent.capitalist_green_step
capitalist_green_step(w, i) ==
    IF w.agents[i].mining
    THEN IF w.agents[i].mining_counter - 1 <= 0
         THEN GreenCapitalistResolve(CountDown(w, i), i)
         ELSE CountDown(w, i)
    ELSE GreenCapitalistGo(w, i, GreenCapitalistTarget(w, i))

\* socialist_green_step lines 442, 446: subsidy, on the units asked for
GreenSocialistSubsidy(w, k, hub) ==
    IF IsRenewable(w, k) THEN renewable_subsidy_per_unit * Desired(w, k, hub)
    ELSE -(carbon_tax_per_unit * Desired(w, k, hub))

\* socialist_green_step line 449
GreenSocialistNet(w, k, hub) ==
    Gained(w) - OpCost(w, k, hub) + GreenSocialistSubsidy(w, k, hub)

GreenSocialistTithe(w, i, k, hub) == TitheAndSkim(w, i, GreenSocialistNet(w, k, hub))

GreenSocialistEarn(w, i, k, hub) == Earn(w, i, GreenSocialistNet(w, k, hub))

\* socialist_green_step lines 429-473: the payoff on the patch k of the agent's cell
GreenSocialistPayoff(w, i, k, hub) ==
    GreenSocialistTithe(
        RemoveDepletedAtPatch(
            GreenSocialistEarn(
                Harvest(SocialistSetup(w, i, k), k, Desired(w, k, hub) * U), i, k, hub),
            k),
        i, k, hub)

GreenSocialistResolveOn(w, i, k) ==
    IF CannotSetUp(w, i, k) THEN StopMining(w, i)
    ELSE IF k = None THEN redistribute_to_neighbors(StopMining(w, i), i)
    ELSE redistribute_to_neighbors(
            StopMining(GreenSocialistPayoff(w, i, k, hub_here(w, w.agents[i].pos)), i), i)

\* socialist_green_step lines 424-477: the countdown ran out
GreenSocialistResolve(w, i) == GreenSocialistResolveOn(w, i, PatchHere(w, w.agents[i].pos))

\* socialist_green_step lines 481-497: best_pos, NoPos for None
GreenSocialistTarget(w, i) ==
    GreenPick(w, i, IF AvgEnergyHigh(w)
                    THEN GreenCandidates(w, "renewable", FALSE)
                    ELSE GreenCandidates(w, "nonrenewable", FALSE))

\* socialist_green_step lines 500-505
GreenSocialistArrive(w, i, best) ==
    IF w.agents[i].pos = best THEN _maybe_build_hub_or_mine(w, i) ELSE w

GreenSocialistGo(w, i, best) ==
    IF best = NoPos THEN idle_wander(w, i)
    ELSE GreenSocialistArrive(move_towards(w, i, best, 1), i, best)

\* IdeologyAgent.socialist_green_step
socialist_green_step(w, i) ==
    IF w.agents[i].mining
    THEN IF w.agents[i].mining_counter - 1 <= 0
         THEN GreenSocialistResolve(CountDown(w, i), i)
         ELSE CountDown(w, i)
    ELSE ShareIfRich(GreenSocialistGo(w, i, GreenSocialistTarget(w, i)), i)

\* self.energy -= 0.5
PayUpkeep(w, i) == [w EXCEPT !.agents[i].energy = @ - upkeep]

\* grid.remove_agent(self); schedule.remove(self), when the energy is spent
RemoveIfSpent(w, i) ==
    IF w.agents[i].energy <= 0
    THEN [w EXCEPT !.agents[i].pos = NoPos, !.agents[i].scheduled = FALSE]
    ELSE w

\* step() lines 144-148: upkeep, and the removal of an agent out of energy
Upkeep(w, i) == RemoveIfSpent(PayUpkeep(w, i), i)

----------------------------------------------------------------------------
(* IdeologyAgent.step: dispatch, policy, upkeep *)

Methods == {"socialist_step", "capitalist_step", "capitalist_green_step", "socialist_green_step"}

\* step() lines 130-141: the method the tag selects
Dispatch(tag) ==
    IF tag = "socialist" THEN "socialist_step"
    ELSE IF tag = "capitalist" THEN "capitalist_step"
    ELSE IF tag = "green_capitalist" THEN "capitalist_green_step"
    ELSE IF tag = "green_socialist" THEN "socialist_green_step"
    ELSE IF tag = "adaptive" THEN "adaptive_step"
    ELSE "capitalist_step"

\* the call of the selected method
RunPolicy(m, w, i) ==
    IF m = "socialist_step" THEN socialist_step(w, i)
    ELSE IF m = "capitalist_green_step" THEN capitalist_green_step(w, i)
    ELSE IF m = "socialist_green_step" THEN socialist_green_step(w, i)
    ELSE capitalist_step(w, i)

----------------------------------------------------------------------------
(* The world: construction and tick *)

Cells == (0..(width - 1)) \X (0..(height - 1))

\* patch sites of the worlds explored: <<type, cell>>
Layouts ==
    { << <<"renewable", <<1, 1>> >>, <<"nonrenewable", <<0, 0>> >>,
         <<"nonrenewable", <<2, 2>> >>, <<"nonrenewable", <<0, 2>> >> >>,
      << <<"renewable", <<1, 1>> >>, <<"renewable", <<2, 0>> >>,
         <<"nonrenewable", <<0, 1>> >> >>,
      << <<"renewable", <<1, 1>> >> >>,
      << <<"renewable", <<1, 1>> >>, <<"nonrenewable", <<0, 1>> >> >> }

Tags == {"socialist", "capitalist", "green_capitalist", "green_socialist", "adaptive", "communist"}
StartCells == {<<0, 0>>, <<2, 1>>}

\* the populations explored: every pair of tags, some trios, and two crews of
\* four of the socialist family
Rosters ==
    {<<a, b>> : a \in Tags, b \in Tags}
    \cup { <<"capitalist", "socialist", "green_socialist">>,
           <<"socialist", "socialist", "green_socialist">>,
           <<"capitalist", "capitalist", "socialist">>,
           <<"green_capitalist", "green_socialist", "socialist">>,
           <<"socialist", "socialist", "green_socialist", "socialist">>,
           <<"socialist", "socialist", "socialist", "socialist">> }

\* the cells the agents of a roster are placed on; the crews of four may also
\* start on the centre cell
StartsOf(tags) == IF Len(tags) = 4 THEN StartCells \cup {<<1, 1>>} ELSE StartCells

\* the cache of the cells of the patches of one type, in construction order
LocationsOf(layout, rtype) ==
    LET sites == SelectSeq(layout, LAMBDA s : s[1] = rtype)
    IN [n \in 1..Len(sites) |-> sites[n][2]]

\* two socialists with the energy to build stand on the renewable patch of cell c
Together(w, c) ==
    /\ \E k \in PatchesAt(w, c) : w.patches[k].resource_type = "renewable"
    /\ Cardinality({a \in AgentsAt(w, c) :
                       w.agents[a].ideology = "socialist"
                       /\ w.agents[a].energy >= build_min_energy}) >= 2

NoHarvest == [patch |-> None, before |-> 0, requested |-> 0, collected |-> 0]
NoStep == [agent |-> None, method |-> "", energy |-> 0]
NoCall == [op |-> "", on |-> None, needy |-> 0, served |-> 0]
NoBuild == [cell |-> NoPos, tick |-> -1]

\* the step that took w0 to w1 was a build tick of agent i: lines 542-551 ran
BuildTicked(w0, w1, i) ==
    \/ w1.agents[i].build_counter > w0.agents[i].build_counter
    \/ Len(w1.hubs) > Len(w0.hubs)

\* the schedule: patches by id, then agents by id; 0 when none is left
NextPatch(w, k) ==
    LET S == {j \in PatchIds(w) : j > k /\ w.patches[j].scheduled}
    IN IF S = {} THEN 0 ELSE CHOOSE j \in S : \A m \in S : j <= m

NextAgent(w, i) ==
    LET S == {j \in AgentIds(w) : j > i /\ w.agents[j].scheduled}
    IN IF S = {} THEN 0 ELSE CHOOSE j \in S : \A m \in S : j <= m

FirstSlot(w) ==
    IF NextPatch(w, 0) # 0 THEN <<"patch", NextPatch(w, 0)>>
    ELSE IF NextAgent(w, 0) # 0 THEN <<"agent", NextAgent(w, 0)>>
    ELSE <<"end", 0>>

AfterPatch(w, k) ==
    IF NextPatch(w, k) # 0 THEN <<"patch", NextPatch(w, k)>>
    ELSE IF NextAgent(w, 0) # 0 THEN <<"agent", NextAgent(w, 0)>>
    ELSE <<"end", 0>>

AfterAgent(w, i) ==
    IF NextAgent(w, i) # 0 THEN <<"agent", NextAgent(w, i)>> ELSE <<"end", 0>>

SetWorld(w) ==
    /\ patches' = w.patches
    /\ agents' = w.agents
    /\ hubs' = w.hubs
    /\ renewable_locations' = w.renewable_locations
    /\ nonrenewable_locations' = w.nonrenewable_locations
    /\ community_pool' = w.community_pool
    /\ total_mined_energy' = w.total_mined_energy
    /\ mined_renewable_step' = w.mined_renewable_step
    /\ mined_nonrenewable_step' = w.mined_nonrenewable_step
    /\ lastHarvest' = w.lastHarvest
    /\ UNCHANGED <<width, height>>

\* the world after construction, holding the patches ps of layout and the agents ags
ConstructedWith(layout, ps, ags) ==
    /\ width = 3
    /\ height = 3
    /\ patches = ps
    /\ agents = ags
    /\ hubs = <<>>
    /\ renewable_locations = LocationsOf(layout, "renewable")
    /\ nonrenewable_locations = LocationsOf(layout, "nonrenewable")
    /\ community_pool = 0
    /\ total_mined_energy = 0
    /\ mined_renewable_step = 0
    /\ mined_nonrenewable_step = 0
    /\ lastHarvest = NoHarvest
    /\ lastStep = NoStep
    /\ streak = [c \in Cells |-> 0]
    /\ buildLog = [i \in DOMAIN ags |-> NoBuild]
    /\ tick = 0
    /\ crashed = FALSE
    /\ calls = 0
    /\ lastCall = NoCall

\* the patches of a layout, each of capacity cap
PatchesOf(layout, cap) ==
    [k \in 1..Len(layout) |-> NewPatch(layout[k][1], layout[k][2], cap)]

\* the world after construction, with the patches of layout, each of capacity
\* cap, and the agents tags at start
Constructed(layout, cap, tags, start) ==
    ConstructedWith(layout, PatchesOf(layout, cap),
                    [i \in 1..Len(tags) |-> NewAgent(tags[i], start[i])])

\* the capacities the patches of a world are built with: the default, and for
\* the trios also the large one
CapacitiesOf(tags) ==
    IF Len(tags) = 3 THEN {max_capacity_default, 4 * max_capacity_default}
    ELSE {max_capacity_default}

Init ==
    \E layout \in Layouts, tags \in Rosters :
      \E start \in [1..Len(tags) -> StartsOf(tags)], cap \in CapacitiesOf(tags) :
        /\ Constructed(layout, cap, tags, start)
        /\ phase = "patch"
        /\ cursor = 1

\* the scheduler steps the patch at the cursor
PatchTurn ==
    /\ ~crashed
    /\ phase = "patch"
    /\ \E w \in {PatchStep(World, cursor)} :
         \E slot \in {AfterPatch(w, cursor)} :
            /\ SetWorld(w)
            /\ phase' = slot[1]
            /\ cursor' = slot[2]
    /\ UNCHANGED <<lastStep, streak, buildLog, tick, crashed, calls, lastCall>>

\* the scheduler steps the agent at the cursor, whose tag selects method m
AgentTurn(m) ==
    /\ ~crashed
    /\ phase = "agent"
    /\ Dispatch(agents[cursor].ideology) = m
    /\ m \in Methods
    /\ \E w1 \in {RunPolicy(m, World, cursor)} :
         \E w2 \in {Upkeep(w1, cursor)} :
            \E slot \in {AfterAgent(w2, cursor)} :
               /\ SetWorld(w2)
               /\ lastStep' = [agent |-> cursor, method |-> m,
                               energy |-> w1.agents[cursor].energy]
               /\ buildLog' = IF BuildTicked(World, w1, cursor)
                               THEN [buildLog EXCEPT ![cursor] =
                                        [cell |-> w1.agents[cursor].pos, tick |-> tick]]
                               ELSE IF w1.agents[cursor].pos # agents[cursor].pos
                               THEN [buildLog EXCEPT ![cursor] = NoBuild]
                               ELSE buildLog
               /\ phase' = slot[1]
               /\ cursor' = slot[2]
    /\ UNCHANGED <<streak, tick, crashed, calls, lastCall>>

SocialistTurn == AgentTurn("socialist_step") /\ agents[cursor].ideology = "socialist"
CapitalistTurn == AgentTurn("capitalist_step") /\ agents[cursor].ideology = "capitalist"
GreenCapitalistTurn == AgentTurn("capitalist_green_step")
GreenSocialistTurn == AgentTurn("socialist_green_step")
\* the else branch of the dispatch
UnknownTagTurn == AgentTurn("capitalist_step") /\ agents[cursor].ideology \notin Known

\* the selected method is not defined by the class: AttributeError leaves step() and the tick
MissingMethodTurn ==
    /\ ~crashed
    /\ phase = "agent"
    /\ Dispatch(agents[cursor].ideology) \notin Methods
    /\ crashed' = TRUE
    /\ lastStep' = [agent |-> cursor, method |-> Dispatch(agents[cursor].ideology),
                    energy |-> agents[cursor].energy]
    /\ UNCHANGED <<width, height, patches, agents, hubs, renewable_locations,
                   nonrenewable_locations, community_pool, total_mined_energy,
                   mined_renewable_step, mined_nonrenewable_step, lastHarvest,
                   streak, buildLog, tick, phase, cursor, calls, lastCall>>

\* the end of the world's step: the per-step counters start over, the next tick begins
EndTick ==
    /\ ~crashed
    /\ phase = "end"
    /\ tick < MaxTicks
    /\ tick' = tick + 1
    /\ mined_renewable_step' = 0
    /\ mined_nonrenewable_step' = 0
    /\ \E w \in {World} :
         \E slot \in {FirstSlot(w)} :
            /\ streak' = [c \in Cells |-> IF Together(w, c) THEN Min(streak[c] + 1, 3) ELSE 0]
            /\ phase' = slot[1]
            /\ cursor' = slot[2]
    /\ UNCHANGED <<width, height, patches, agents, hubs, renewable_locations,
                   nonrenewable_locations, community_pool, total_mined_energy,
                   lastHarvest, lastStep, buildLog, crashed, calls, lastCall>>

Next ==
    \/ PatchTurn
    \/ SocialistTurn
    \/ CapitalistTurn
    \/ GreenCapitalistTurn
    \/ GreenSocialistTurn
    \/ UnknownTagTurn
    \/ MissingMethodTurn
    \/ EndTick

Spec == Init /\ [][Next]_vars

----------------------------------------------------------------------------
(* The patches alone: any interleaving of harvest() and step() calls *)

\* the quantities asked of harvest(): nothing, parts of a patch, the renewable
\* yield, the nonrenewable yield
Requests == {0, 1, 3, yield_per_mine_renewable, yield_per_mine_nonrenewable}

PatchLayouts ==
    {layout \in Layouts : Len(layout) <= 2}
    \cup { << <<"renewable", <<2, 0>> >>, <<"nonrenewable", <<0, 1>> >> >> }

\* max_capacity of the patches called on: the default, and one large enough
\* for the scar spilled by one patch to pass scar_max
Capacities == {max_capacity_default, 4 * max_capacity_default}

PatchInit ==
    \E layout \in PatchLayouts, cap \in Capacities :
        /\ (cap # max_capacity_default => layout \in Layouts /\ Len(layout) = 2)
        /\ ConstructedWith(layout, PatchesOf(layout, cap), <<>>)
        /\ phase = "api"
        /\ cursor = 0

\* harvest(r) on a patch of the grid
HarvestCall(k, r) ==
    /\ phase = "api"
    /\ calls < MaxCalls
    /\ patches[k].pos # NoPos
    /\ \E w \in {Harvest(World, k, r * U)} : SetWorld(w)
    /\ calls' = calls + 1
    /\ lastCall' = [op |-> "harvest", on |-> k, needy |-> 0, served |-> 0]
    /\ UNCHANGED <<lastStep, streak, buildLog, tick, phase, cursor, crashed>>

\* step() on a patch of the schedule
StepCall(k) ==
    /\ phase = "api"
    /\ calls < MaxCalls
    /\ patches[k].scheduled
    /\ \E w \in {PatchStep(World, k)} : SetWorld(w)
    /\ calls' = calls + 1
    /\ lastCall' = [op |-> "step", on |-> k, needy |-> 0, served |-> 0]
    /\ UNCHANGED <<lastStep, streak, buildLog, tick, phase, cursor, crashed>>

PatchNext ==
    \/ \E k \in DOMAIN patches, r \in Requests : HarvestCall(k, r)
    \/ \E k \in DOMAIN patches : StepCall(k)

SpecPatch == PatchInit /\ [][PatchNext]_vars

----------------------------------------------------------------------------
(* The agents alone: redistribute_to_neighbors called on agents of any energy *)

\* energies of the agents called on: poor, just under help_threshold, above
\* min_keep, rich
ShareEnergies == {1 * U, help_threshold - U \div 2, min_keep + 237, 20 * U}

\* share_fraction as constructed, and tuned above 1 so that a share can take
\* the giver to the keep floor
ShareFractions == {share_fraction, (3 * U) \div 2}

ShareCells == {<<0, 0>>, <<1, 0>>, <<1, 1>>}

ShareInit ==
    \E cell \in [1..3 -> ShareCells], e \in [1..3 -> ShareEnergies], f \in ShareFractions :
        /\ ConstructedWith(<<>>, <<>>,
              [i \in 1..3 |-> [NewAgent("socialist", cell[i])
                                  EXCEPT !.energy = e[i], !.share_fraction = f]])
        /\ phase = "api"
        /\ cursor = 0

\* redistribute_to_neighbors() on agent i
RedistributeCall(i) ==
    /\ phase = "api"
    /\ calls < MaxShares
    /\ \E w \in {redistribute_to_neighbors(World, i)} :
          /\ SetWorld(w)
          /\ lastCall' = [op |-> "redistribute", on |-> i,
                          needy |-> Len(Needy(World, i)),
                          served |-> Cardinality({a \in DOMAIN agents :
                                         w.agents[a].energy > agents[a].energy})]
    /\ calls' = calls + 1
    /\ UNCHANGED <<lastStep, streak, buildLog, tick, phase, cursor, crashed>>

ShareNext == \E i \in DOMAIN agents : RedistributeCall(i)

SpecShare == ShareInit /\ [][ShareNext]_vars

\* the same calls on agents that keep the share_fraction of __init__
ShareInitBuilt ==
    /\ ShareInit
    /\ \A i \in DOMAIN agents : agents[i].share_fraction = share_fraction

SpecShareBuilt == ShareInitBuilt /\ [][ShareNext]_vars

----------------------------------------------------------------------------
(* Properties *)

\* C1: in every state reached by any interleaving of harvest() and step()
\* calls, every patch holds an amount of at least 0 and at most its
\* max_capacity.
AmountWithinCapacity ==
    \A k \in DOMAIN patches :
        patches[k].amount >= 0 /\ patches[k].amount <= patches[k].max_capacity

\* a harvested renewable patch, regrowing at a scar-reduced fractional rate,
\* stands at its capacity again
RegrownToCapacity ==
    \E k \in DOMAIN patches :
        /\ lastHarvest.patch = k
        /\ lastHarvest.collected > 0
        /\ patches[k].scar_level > 0
        /\ patches[k].regen_rate > 0
        /\ patches[k].regen_rate < patches[k].base_regen_rate
        /\ patches[k].amount = patches[k].max_capacity

\* C2: harvest(r) on a patch holding A returns min(A, r) and leaves the
\* patch holding A - min(A, r), for every patch, every A and every request r.
HarvestReturnsMin ==
    [][\A k \in DOMAIN patches, r \in Requests :
          HarvestCall(k, r) =>
             /\ lastHarvest'.collected = Min(patches[k].amount, r * U)
             /\ patches'[k].amount = patches[k].amount - Min(patches[k].amount, r * U)]_vars

\* more was asked than the patch held: all of it was returned, nothing is left
HarvestedForMoreThanHeld ==
    /\ lastHarvest.patch # None
    /\ lastHarvest.before > 0
    /\ lastHarvest.requested > lastHarvest.before
    /\ lastHarvest.collected = lastHarvest.before
    /\ patches[lastHarvest.patch].amount = 0

\* the patch at the cursor is stepped and leaves the grid and the schedule
StepRemovesPatch ==
    /\ patches'[cursor].pos = NoPos
    /\ ~patches'[cursor].scheduled

\* C3 as stated: a renewable patch whose scar_level is at or above
\* scar_collapse_threshold when a tick ends is off the grid and out of the
\* schedule after the patch phase of the next tick.  (Between the end of a tick
\* and the patch's own step nothing touches its scar.)
CollapseAtThreshold ==
    [][(/\ phase = "patch"
        /\ patches[cursor].resource_type = "renewable"
        /\ patches[cursor].scar_level >= scar_collapse_threshold)
       => StepRemovesPatch]_vars

\* C3, amended: a renewable patch whose scar_level, less the scar_decay of one
\* tick, is at or above scar_collapse_threshold when a tick ends is off the
\* grid and out of the schedule after the patch phase of the next tick.
CollapseAtDecayedThreshold ==
    [][(/\ phase = "patch"
        /\ patches[cursor].resource_type = "renewable"
        /\ patches[cursor].scar_level - scar_decay >= scar_collapse_threshold)
       => StepRemovesPatch]_vars

\* a renewable patch has collapsed
RenewableCollapsed ==
    \E k \in DOMAIN patches :
        /\ patches[k].resource_type = "renewable"
        /\ patches[k].scar_level >= scar_collapse_threshold
        /\ patches[k].pos = NoPos
        /\ ~patches[k].scheduled

\* the cells of a cache, and the cells of the patches of one type on the grid
CacheCells(locs) == {locs[n] : n \in 1..Len(locs)}
GridCells(rtype) ==
    {patches[k].pos : k \in {j \in DOMAIN patches :
                               patches[j].resource_type = rtype /\ patches[j].pos # NoPos}}

\* C4: in every state renewable_locations holds exactly the cells of the
\* renewable patches on the grid; a patch that collapses in step() takes its
\* cell out of the cache in that step.
RenewableCacheAgrees == CacheCells(renewable_locations) = GridCells("renewable")

\* C5: under every policy, an agent step that brings a nonrenewable patch to
\* amount 0 also takes the patch off the grid and out of the schedule, and its
\* cell out of nonrenewable_locations.
DepletedPatchRemoved ==
    [][\A k \in DOMAIN patches :
          (/\ patches[k].resource_type = "nonrenewable"
           /\ patches[k].amount > 0
           /\ patches'[k].amount <= 0)
          => /\ patches'[k].pos = NoPos
             /\ ~patches'[k].scheduled
             /\ ~InList(nonrenewable_locations', patches[k].pos)]_vars

\* C6: for every agent in the world, mining_target is None when the agent is
\* not mining, and when it is mining, mining_target is a patch that is in the
\* world and on the agent's cell.
MiningTargetValid ==
    \A i \in DOMAIN agents :
        agents[i].scheduled =>
            IF agents[i].mining
            THEN /\ agents[i].mining_target # None
                 /\ patches[agents[i].mining_target].scheduled
                 /\ patches[agents[i].mining_target].pos = agents[i].pos
            ELSE agents[i].mining_target = None

\* C7: once two socialists with energy of 3 or more have stood together on a
\* renewable patch through two consecutive ticks, exactly one EnergyHub stands
\* on that cell.
HubAfterTwoTicksTogether ==
    \A c \in Cells :
        streak[c] >= 3 => Cardinality({h \in 1..Len(hubs) : hubs[h] = c}) = 1

\* the world a capitalist step of the agent at the cursor leaves
AsCapitalist == Upkeep(capitalist_step(World, cursor), cursor)

\* C8: the step of an agent tagged adaptive, or tagged outside the known set,
\* leaves the state the step of a capitalist leaves, and a policy has run.
AdaptiveStepsAsCapitalist ==
    [][(/\ phase = "agent"
        /\ ~crashed
        /\ agents[cursor].ideology \notin
              {"socialist", "capitalist", "green_capitalist", "green_socialist"})
       => /\ ~crashed'
          /\ lastStep'.method = "capitalist_step"
          /\ agents' = AsCapitalist.agents
          /\ patches' = AsCapitalist.patches
          /\ nonrenewable_locations' = AsCapitalist.nonrenewable_locations]_vars

\* C9: every agent step leaves the agent the energy its policy left less the
\* upkeep of 0.5, and takes the agent off the grid and out of the schedule in
\* that step exactly when this energy is 0 or less; an agent out of the
\* schedule is never stepped or changed again; so every agent in the world
\* has energy above 0, at tick boundaries as in every other state.
UpkeepThenRemoval ==
    /\ [](\A i \in DOMAIN agents : agents[i].scheduled => agents[i].energy > 0)
    /\ [](phase = "agent" => agents[cursor].scheduled)
    /\ [][(phase = "agent" /\ ~crashed)
          => /\ lastStep'.agent = cursor
             /\ agents'[cursor].energy = lastStep'.energy - upkeep
             /\ agents'[cursor].scheduled = (lastStep'.energy - upkeep > 0)
             /\ (agents'[cursor].pos = NoPos) = (lastStep'.energy - upkeep <= 0)]_vars
    /\ [][\A i \in DOMAIN agents : ~agents[i].scheduled => agents'[i] = agents[i]]_vars

\* the same of the steps whose tag selects a method the class defines
UpkeepThenRemovalWherePolicyRuns ==
    /\ [](\A i \in DOMAIN agents : agents[i].scheduled => agents[i].energy > 0)
    /\ [](phase = "agent" => agents[cursor].scheduled)
    /\ [][(phase = "agent" /\ ~crashed /\ Dispatch(agents[cursor].ideology) \in Methods)
          => /\ lastStep'.agent = cursor
             /\ agents'[cursor].energy = lastStep'.energy - upkeep
             /\ agents'[cursor].scheduled = (lastStep'.energy - upkeep > 0)
             /\ (agents'[cursor].pos = NoPos) = (lastStep'.energy - upkeep <= 0)]_vars
    /\ [][\A i \in DOMAIN agents : ~agents[i].scheduled => agents'[i] = agents[i]]_vars

\* C10: an agent enters the mining state with a countdown of 3; each of its
\* steps while mining takes 1 off the countdown; the step that brings the
\* countdown to 0, its third, ends with mining false and mining_target None
\* under every policy, whatever became of the patch and whether or not the
\* setup cost could be paid.
MiningLastsThreeSteps ==
    /\ [](\A i \in DOMAIN agents :
            agents[i].mining => agents[i].mining_counter \in 1..mining_ticks)
    /\ [][\A i \in DOMAIN agents :
            (~agents[i].mining /\ agents'[i].mining)
            => agents'[i].mining_counter = mining_ticks]_vars
    /\ [][(phase = "agent" /\ agents[cursor].mining)
          => /\ agents'[cursor].mining_counter = agents[cursor].mining_counter - 1
             /\ agents'[cursor].mining = (agents[cursor].mining_counter > 1)
             /\ (agents[cursor].mining_counter <= 1
                 => agents'[cursor].mining_target = None)]_vars

\* an agent has mined for three steps, resolved its payoff and is idle
ResolvedAndIdle ==
    \E i \in DOMAIN agents :
        /\ lastStep.agent = i
        /\ lastHarvest.patch # None
        /\ agents[i].total_collected_energy > 0
        /\ ~agents[i].mining
        /\ agents[i].mining_target = None
        /\ agents[i].mining_counter = 0

\* C11 as stated: every agent step that begins with mining true leaves the
\* agent's grid position as it was and takes exactly 1 off mining_counter.
MiningStepKeepsPosition ==
    [][(phase = "agent" /\ agents[cursor].mining)
       => /\ agents'[cursor].pos = agents[cursor].pos
          /\ agents'[cursor].mining_counter = agents[cursor].mining_counter - 1]_vars

\* C11, amended: every agent step that begins with mining true takes exactly 1
\* off mining_counter and moves the agent to no other cell: its position is as
\* it was, unless the upkeep of the step left it with energy of 0 or less and
\* took it off the grid.
MiningStepMovesNowhere ==
    [][(phase = "agent" /\ agents[cursor].mining)
       => /\ agents'[cursor].mining_counter = agents[cursor].mining_counter - 1
          /\ \/ agents'[cursor].pos = agents[cursor].pos
             \/ /\ agents'[cursor].pos = NoPos
                /\ ~agents'[cursor].scheduled
                /\ agents'[cursor].energy <= 0]_vars

\* an agent has stepped twice while mining and stands where it started to mine
MinedInPlace ==
    \E i \in DOMAIN agents :
        /\ lastStep.agent = i
        /\ agents[i].mining
        /\ agents[i].mining_counter = mining_ticks - 2
        /\ agents[i].mining_target # None
        /\ agents[i].pos = patches[agents[i].mining_target].pos

\* C12: every call of redistribute_to_neighbors takes from the giver exactly
\* the sum of what it adds to the receivers, takes from no one else, and
\* changes nothing but energies; also when the loop stops at the keep floor
\* before every needy neighbour is served.
ShareConserves ==
    [][\A i \in DOMAIN agents :
          RedistributeCall(i) =>
             /\ agents[i].energy - agents'[i].energy
                  = SumEnergy([agents |-> agents'], DOMAIN agents \ {i})
                    - SumEnergy(World, DOMAIN agents \ {i})
             /\ \A a \in DOMAIN agents \ {i} : agents'[a].energy >= agents[a].energy
             /\ \A a \in DOMAIN agents :
                   agents' [a] = [agents[a] EXCEPT !.energy = agents'[a].energy]
             /\ community_pool' = community_pool]_vars

\* a call served some but not all of the needy neighbours and left the giver
\* at or under min_keep
SharingStoppedEarly ==
    /\ lastCall.op = "redistribute"
    /\ lastCall.served >= 1
    /\ lastCall.served < lastCall.needy
    /\ agents[lastCall.on].energy <= min_keep

\* the renewable patch j stands on the grid within scar_radius cells, in both
\* axes, of the cell of patch k
InSpillReach(j, k) ==
    /\ patches[j].resource_type = "renewable"
    /\ patches[j].pos # NoPos
    /\ Abs(patches[j].pos[1] - patches[k].pos[1]) <= scar_radius
    /\ Abs(patches[j].pos[2] - patches[k].pos[2]) <= scar_radius

\* C13: a harvest that collects c > 0 from a nonrenewable patch leaves every
\* renewable patch within scar_radius of the harvested cell with scar_level
\* min(scar_max, old scar_level + scar_increase_per_unit * c), and every other
\* patch with the scar_level it had.
SpillScarsWithinRadius ==
    [][\A k \in DOMAIN patches, r \in Requests :
          (/\ HarvestCall(k, r)
           /\ patches[k].resource_type = "nonrenewable"
           /\ Min(patches[k].amount, r * U) > 0)
          => \A j \in DOMAIN patches :
                patches'[j].scar_level =
                    IF InSpillReach(j, k)
                    THEN Min(scar_max,
                             patches[j].scar_level
                               + (scar_increase_per_unit * Min(patches[k].amount, r * U)) \div U)
                    ELSE patches[j].scar_level]_vars

\* a nonrenewable harvest has scarred the renewable patch beside it by the
\* units collected
SpilledOnNeighbour ==
    /\ lastCall.op = "harvest"
    /\ patches[lastCall.on].resource_type = "nonrenewable"
    /\ lastHarvest.collected = 3 * U
    /\ \E j \in DOMAIN patches :
          /\ InSpillReach(j, lastCall.on)
          /\ patches[j].scar_level = 3 * scar_increase_per_unit

\* C14: in every state every patch has a scar_level of at least 0 and at most
\* scar_max, and every nonrenewable patch has scar_level 0.
ScarWithinBounds ==
    \A k \in DOMAIN patches :
        /\ patches[k].scar_level >= 0
        /\ patches[k].scar_level <= scar_max
        /\ (patches[k].resource_type = "nonrenewable" => patches[k].scar_level = 0)

\* a spill that would have passed scar_max has left a renewable patch at scar_max
ScarCapped ==
    /\ lastCall.op = "harvest"
    /\ patches[lastCall.on].resource_type = "nonrenewable"
    /\ lastHarvest.collected > 0
    /\ patches[lastCall.on].max_capacity - patches[lastCall.on].amount
          > (scar_max \div scar_increase_per_unit) * U
    /\ \E j \in DOMAIN patches :
          InSpillReach(j, lastCall.on) /\ patches[j].scar_level = scar_max

\* C15: over any sequence of step() and harvest() calls the amount of a
\* nonrenewable patch never rises, and its regen_rate and base_regen_rate are
\* 0 in every state.
NonrenewableNeverRegrows ==
    /\ [](\A k \in DOMAIN patches :
            patches[k].resource_type = "nonrenewable"
            => patches[k].regen_rate = 0 /\ patches[k].base_regen_rate = 0)
    /\ [][\A k \in DOMAIN patches :
            patches[k].resource_type = "nonrenewable"
            => patches'[k].amount <= patches[k].amount]_vars

\* a nonrenewable patch, harvested in part, has been stepped and holds what
\* the harvest left
SteppedWithoutRegrowth ==
    /\ lastCall.op = "step"
    /\ patches[lastCall.on].resource_type = "nonrenewable"
    /\ lastHarvest.patch = lastCall.on
    /\ lastHarvest.collected > 0
    /\ patches[lastCall.on].amount = lastHarvest.before - lastHarvest.collected
    /\ patches[lastCall.on].amount > 0

Greens == {"green_capitalist", "green_socialist"}

\* the cell the green agent i selects in the world as it stands
GreenTargetOf(i) ==
    IF agents[i].ideology = "green_capitalist"
    THEN GreenCapitalistTarget(World, i)
    ELSE GreenSocialistTarget(World, i)

\* C16: whenever a green_capitalist or green_socialist agent selects a target,
\* no agent stands on the selected cell at that moment.
GreenTargetUnoccupied ==
    [][(/\ phase = "agent"
        /\ ~crashed
        /\ agents[cursor].ideology \in Greens
        /\ ~agents[cursor].mining
        /\ GreenTargetOf(cursor) # NoPos)
       => AgentsAt(World, GreenTargetOf(cursor)) = {}]_vars

\* the same of the green_capitalist alone
GreenCapitalistTargetUnoccupied ==
    [][(/\ phase = "agent"
        /\ ~crashed
        /\ agents[cursor].ideology = "green_capitalist"
        /\ ~agents[cursor].mining
        /\ GreenTargetOf(cursor) # NoPos)
       => AgentsAt(World, GreenTargetOf(cursor)) = {}]_vars

\* the net gain the tax and subsidy rule gives for g units gained from patch k
TaxedNet(g, k) ==
    IF patches[k].resource_type = "nonrenewable"
    THEN g - OpCost(World, k, hub_here(World, agents[cursor].pos))
           - (carbon_tax_per_unit * g) \div U
    ELSE g - OpCost(World, k, hub_here(World, agents[cursor].pos))
           + (renewable_subsidy_per_unit * g) \div U

\* the units the step of the agent at the cursor harvested
UnitsGained == total_mined_energy' - total_mined_energy

\* C17: when a green_capitalist or green_socialist agent completes mining and
\* gains g > 0 units, its net gain is g less the extraction cost, less
\* carbon_tax_per_unit * g on a nonrenewable patch, with community_pool
\* rising by that tax, and plus renewable_subsidy_per_unit * g on a renewable
\* patch.  (The net gain is read off total_collected_energy, which takes every
\* positive net gain; the tithe and skim of a green_socialist come on top of
\* the tax in the pool.)
GreenTaxAndSubsidy ==
    [][(/\ phase = "agent"
        /\ ~crashed
        /\ agents[cursor].ideology \in Greens
        /\ UnitsGained > 0)
       => /\ agents'[cursor].total_collected_energy - agents[cursor].total_collected_energy
               = Max(0, TaxedNet(UnitsGained, lastHarvest'.patch))
          /\ (patches[lastHarvest'.patch].resource_type = "nonrenewable"
              => IF agents[cursor].ideology = "green_capitalist"
                 THEN community_pool' - community_pool
                        = (carbon_tax_per_unit * UnitsGained) \div U
                 ELSE community_pool' - community_pool
                        >= (carbon_tax_per_unit * UnitsGained) \div U)]_vars

\* the same of the green_capitalist alone
GreenCapitalistTaxAndSubsidy ==
    [][(/\ phase = "agent"
        /\ ~crashed
        /\ agents[cursor].ideology = "green_capitalist"
        /\ UnitsGained > 0)
       => /\ agents'[cursor].total_collected_energy - agents[cursor].total_collected_energy
               = Max(0, TaxedNet(UnitsGained, lastHarvest'.patch))
          /\ (patches[lastHarvest'.patch].resource_type = "nonrenewable"
              => community_pool' - community_pool
                    = (carbon_tax_per_unit * UnitsGained) \div U)]_vars

\* the step of the agent at the cursor called harvest() on a renewable patch
HarvestsRenewable ==
    /\ phase = "agent"
    /\ ~crashed
    /\ (UnitsGained > 0 \/ lastHarvest' # lastHarvest)
    /\ patches[lastHarvest'.patch].resource_type = "renewable"

\* C18: under every policy, a step in which an agent harvests a renewable
\* patch ends with the patch in its renewable_setup_paid; a patch enters
\* renewable_setup_paid only in such a step, with cost_renewable_setup taken
\* from the agent's energy, and never leaves it; a harvest of a patch already
\* in it takes no setup cost.  (The energy is compared for the policies
\* without tithe and sharing.)
SetupPaidOncePerPatch ==
    /\ [][HarvestsRenewable
          => lastHarvest'.patch \in agents'[cursor].renewable_setup_paid]_vars
    /\ [][\A i \in DOMAIN agents :
            /\ agents[i].renewable_setup_paid \subseteq agents'[i].renewable_setup_paid
            /\ \A k \in agents'[i].renewable_setup_paid \ agents[i].renewable_setup_paid :
                  /\ i = cursor
                  /\ HarvestsRenewable
                  /\ k = lastHarvest'.patch]_vars
    /\ [][(/\ HarvestsRenewable
           /\ Dispatch(agents[cursor].ideology) \in {"capitalist_step", "capitalist_green_step"})
          => lastStep'.energy - agents[cursor].energy
               = (UnitsGained - cost_extract_renewable)
                 + (IF agents[cursor].ideology = "green_capitalist"
                    THEN (renewable_subsidy_per_unit * UnitsGained) \div U ELSE 0)
                 - (IF lastHarvest'.patch \in agents[cursor].renewable_setup_paid
                    THEN 0 ELSE cost_renewable_setup)]_vars

\* the same of every policy but the green_capitalist's
SetupPaidOncePerPatchButGreenCapitalist ==
    /\ [][(HarvestsRenewable /\ agents[cursor].ideology # "green_capitalist")
          => lastHarvest'.patch \in agents'[cursor].renewable_setup_paid]_vars
    /\ [][\A i \in DOMAIN agents :
            /\ agents[i].renewable_setup_paid \subseteq agents'[i].renewable_setup_paid
            /\ \A k \in agents'[i].renewable_setup_paid \ agents[i].renewable_setup_paid :
                  /\ i = cursor
                  /\ HarvestsRenewable
                  /\ k = lastHarvest'.patch]_vars
    /\ [][(/\ HarvestsRenewable
           /\ Dispatch(agents[cursor].ideology) = "capitalist_step")
          => lastStep'.energy - agents[cursor].energy
               = (UnitsGained - cost_extract_renewable)
                 - (IF lastHarvest'.patch \in agents[cursor].renewable_setup_paid
                    THEN 0 ELSE cost_renewable_setup)]_vars

\* a patch of the type with amount > 0 stands on a cell of the type's cache
SomeLive(rtype) ==
    \E n \in 1..Len(CacheOf(World, rtype)) :
        LivePatchAt(World, CacheOf(World, rtype)[n], rtype) # None

\* the type preferred at the community's average energy, and the other one
PreferredType == IF AvgEnergyHigh(World) THEN "renewable" ELSE "nonrenewable"
FallbackType == IF AvgEnergyHigh(World) THEN "nonrenewable" ELSE "renewable"

\* the target of the green_socialist at the cursor is a live patch of the type
TargetsType(rtype) ==
    /\ GreenSocialistTarget(World, cursor) # NoPos
    /\ LivePatchAt(World, GreenSocialistTarget(World, cursor), rtype) # None

\* C19: an idle green_socialist takes its target by the socialist rule of
\* normal mode: among the renewable patches when the community average energy
\* is above 5.0, else among the nonrenewable ones; among the patches of the
\* other type when none of the preferred type is available; and it wanders
\* only when no patch of either type is available.  (A patch of the other
\* type is counted available when it holds something and no agent stands on
\* it, which is what the socialist's search takes.)
GreenSocialistTypeRule ==
    [][(/\ phase = "agent"
        /\ ~crashed
        /\ agents[cursor].ideology = "green_socialist"
        /\ ~agents[cursor].mining)
       => /\ SomeLive(PreferredType) => TargetsType(PreferredType)
          /\ (~SomeLive(PreferredType) /\ Available(World, FallbackType) # {})
                => TargetsType(FallbackType)]_vars

\* the same without the fallback: the green_socialist takes a patch of the
\* preferred type when there is one and wanders otherwise
GreenSocialistTypeWithoutFallback ==
    [][(/\ phase = "agent"
        /\ ~crashed
        /\ agents[cursor].ideology = "green_socialist"
        /\ ~agents[cursor].mining)
       => IF SomeLive(PreferredType)
          THEN TargetsType(PreferredType)
          ELSE GreenSocialistTarget(World, cursor) = NoPos]_vars

\* the entries of a cache with a live patch of the type and no agent but i on the cell
OpenTo(i, rtype) ==
    {n \in 1..Len(CacheOf(World, rtype)) :
        /\ LivePatchAt(World, CacheOf(World, rtype)[n], rtype) # None
        /\ AgentsAt(World, CacheOf(World, rtype)[n]) \subseteq {i}}

\* the first of the nearest entries of a cache open to i, 0 for none
NearestOpenTo(i, rtype) ==
    LeastOf([n \in 1..Len(CacheOf(World, rtype)) |->
                manhattan_distance(agents[i].pos, CacheOf(World, rtype)[n])],
            OpenTo(i, rtype))

\* the nearest nonrenewable patch open to i lies within 10 cells
NonrenewableNear(i) ==
    /\ NearestOpenTo(i, "nonrenewable") # 0
    /\ manhattan_distance(agents[i].pos,
                          nonrenewable_locations[NearestOpenTo(i, "nonrenewable")])
          <= capitalist_near

\* C20: an idle capitalist targets the nearest nonrenewable patch that holds
\* something and has no other agent on it, when that patch is within 10
\* cells; otherwise the nearest such renewable patch, the first found among
\* equals; a patch is passed over for an agent on it only when that agent is
\* another one, so the patch under the capitalist itself can be its target.
CapitalistTargetsNearestOpen ==
    [][(/\ phase = "agent"
        /\ ~crashed
        /\ agents[cursor].ideology = "capitalist"
        /\ ~agents[cursor].mining)
       => /\ NonrenewableNear(cursor)
               => CapitalistTarget(World, cursor)
                    = nonrenewable_locations[NearestOpenTo(cursor, "nonrenewable")]
          /\ (~NonrenewableNear(cursor) /\ NearestOpenTo(cursor, "renewable") # 0)
               => CapitalistTarget(World, cursor)
                    = renewable_locations[NearestOpenTo(cursor, "renewable")]]_vars

\* the same with the capitalist's own cell passed over as any occupied cell
CapitalistPassesOverOwnCell ==
    [][(/\ phase = "agent"
        /\ ~crashed
        /\ agents[cursor].ideology = "capitalist"
        /\ ~agents[cursor].mining)
       => /\ CapitalistTarget(World, cursor) # agents[cursor].pos
          /\ CapitalistTarget(World, cursor) # NoPos
               => AgentsAt(World, CapitalistTarget(World, cursor)) = {}]_vars

\* the agents ags signalling build intent on cell c
IntentAt(ags, c) == {a \in DOMAIN ags : ags[a].pos = c /\ ags[a].intent_build}

\* the step taken is a build tick of the agent at the cursor: its counter rose
\* or a hub was placed
BuildTickStep ==
    /\ phase = "agent"
    /\ \/ agents'[cursor].build_counter > agents[cursor].build_counter
       \/ Len(hubs') > Len(hubs)

SocialistFamily == {"socialist", "green_socialist"}

\* the cell the idle agent i of the socialist family makes for, NoPos for none
FamilyTarget(i) ==
    IF agents[i].ideology = "socialist" THEN SocialistTarget(World, i)
    ELSE GreenSocialistTarget(World, i)

\* the step of the agent at the cursor brings it onto its target cell, where
\* _maybe_build_hub_or_mine is called
ArrivesOnTarget ==
    /\ phase = "agent"
    /\ agents[cursor].ideology \in SocialistFamily
    /\ ~agents[cursor].mining
    /\ FamilyTarget(cursor) # NoPos
    /\ move_towards(World, cursor, FamilyTarget(cursor), 1).agents[cursor].pos
           = FamilyTarget(cursor)

\* C22: a socialist-family agent that arrives on a renewable patch without a
\* hub, with fewer than two agents signalling intent on the cell (itself
\* counted), has build_counter 0 after the step and is mining: countdown 3,
\* mining_target the patch of the cell; no hub is placed in the step.
AloneStartsMining ==
    [][(/\ ArrivesOnTarget
        /\ PatchHere(World, FamilyTarget(cursor)) # None
        /\ IsRenewable(World, PatchHere(World, FamilyTarget(cursor)))
        /\ ~hub_here(World, FamilyTarget(cursor))
        /\ Cardinality(IntentAt(agents', FamilyTarget(cursor)) \cup {cursor}) < 2)
       => /\ agents'[cursor].build_counter = 0
          /\ agents'[cursor].mining
          /\ agents'[cursor].mining_counter = mining_ticks
          /\ agents'[cursor].mining_target = PatchHere(World, FamilyTarget(cursor))
          /\ agents'[cursor].intent_build
          /\ hubs' = hubs
      ]_vars

\* an agent of the socialist family has just arrived alone on an unhubbed
\* renewable patch and started to mine it
ArrivedAloneAndMining ==
    /\ lastStep.agent # None
    /\ agents[lastStep.agent].ideology \in SocialistFamily
    /\ agents[lastStep.agent].mining
    /\ agents[lastStep.agent].mining_counter = mining_ticks
    /\ agents[lastStep.agent].intent_build
    /\ agents[lastStep.agent].build_counter = 0
    /\ agents[lastStep.agent].mining_target # None
    /\ patches[agents[lastStep.agent].mining_target].resource_type = "renewable"
    /\ patches[agents[lastStep.agent].mining_target].pos = agents[lastStep.agent].pos
    /\ ~hub_here(World, agents[lastStep.agent].pos)
    /\ IntentAt(agents, agents[lastStep.agent].pos) = {lastStep.agent}

\* the step of the agent at the cursor resolves a mining cycle of the
\* socialist family on the patch of its cell: lines 248-293 and 429-473 run
PayoffStep ==
    /\ phase = "agent"
    /\ agents[cursor].ideology \in SocialistFamily
    /\ agents[cursor].mining
    /\ agents[cursor].mining_counter <= 1
    /\ PatchHere(World, agents[cursor].pos) # None
    /\ ~CannotSetUp(World, cursor, PatchHere(World, agents[cursor].pos))

\* the setup cost the resolving agent pays in the step
SetupDue ==
    IF /\ IsRenewable(World, PatchHere(World, agents[cursor].pos))
       /\ PatchHere(World, agents[cursor].pos) \notin agents[cursor].renewable_setup_paid
    THEN cost_renewable_setup ELSE 0

\* net_gain of the resolving step, from the units its harvest() returned
NetGain ==
    lastHarvest'.collected
    - OpCost(World, PatchHere(World, agents[cursor].pos), hub_here(World, agents[cursor].pos))
    + (IF agents[cursor].ideology = "green_socialist"
       THEN GreenSocialistSubsidy(World, PatchHere(World, agents[cursor].pos),
                                  hub_here(World, agents[cursor].pos))
       ELSE 0)

\* the agent's energy once the net gain is added, before tithe and skim
EnergyWithGain == agents[cursor].energy - SetupDue + NetGain

TitheDue == Min(Mul(tithe_rate, NetGain), EnergyWithGain)

SkimDue ==
    IF EnergyWithGain - TitheDue > energy_cap
    THEN EnergyWithGain - TitheDue - energy_cap ELSE 0

\* the energy of all agents once the policy of the step has run, before upkeep
EnergyAfterPolicy ==
    SumEnergy([agents |-> [agents' EXCEPT ![cursor].energy = lastStep'.energy]],
              DOMAIN agents)

\* C23: when a socialist or green_socialist resolves a mining cycle with a
\* positive net gain, community_pool grows by min(tithe_rate * net_gain,
\* energy) and then by whatever the energy left exceeds energy_cap by; the
\* agent's energy after the payoff is at most energy_cap, and what the pool
\* receives is exactly what the agents' energy loses.
TitheThenSkim ==
    [][(PayoffStep /\ NetGain > 0)
       => /\ community_pool' = community_pool + TitheDue + SkimDue
          /\ lastStep'.energy <= energy_cap
          /\ EnergyAfterPolicy + community_pool'
                = SumEnergy(World, DOMAIN agents) - SetupDue + NetGain + community_pool
      ]_vars

\* an agent of the socialist family has resolved a cycle that took it above
\* energy_cap: it stands at the cap and the pool holds its tithe and its skim
SkimmedToCap ==
    /\ lastStep.agent # None
    /\ agents[lastStep.agent].ideology \in SocialistFamily
    /\ lastStep.energy = energy_cap
    /\ ~agents[lastStep.agent].mining
    /\ agents[lastStep.agent].total_collected_energy > 0
    /\ lastHarvest.collected > 0
    /\ community_pool
         > Mul(tithe_rate, SumEnergy([agents |-> [a \in DOMAIN agents |->
                                        [energy |-> agents[a].total_collected_energy]]],
                                     DOMAIN agents))

\* the harvest() just called arms the cooldown of the patch it was called on:
\* a renewable patch gave something and is now empty or fatigued
ArmsCooldown(k) ==
    /\ k = lastCall'.on
    /\ patches[k].resource_type = "renewable"
    /\ lastHarvest'.collected > 0
    /\ \/ patches'[k].amount <= 0
       \/ patches'[k].fatigue >= renewable_overuse_trigger * U

\* C24: harvest() never lowers cooldown_remaining: it sets it to the larger of
\* its value and renewable_cooldown_steps when a renewable patch is emptied or
\* its fatigue reaches the trigger, and leaves it alone otherwise; only step()
\* lowers it, by exactly 1; and a step() that starts with cooldown_remaining
\* above 0 does not raise the patch's amount.
CooldownOnlyCountsDownInStep ==
    [][\A k \in DOMAIN patches :
          /\ lastCall'.op = "harvest" =>
                patches'[k].cooldown_remaining =
                    IF ArmsCooldown(k)
                    THEN Max(patches[k].cooldown_remaining, renewable_cooldown_steps)
                    ELSE patches[k].cooldown_remaining
          /\ lastCall'.op = "step" =>
                /\ patches'[k].cooldown_remaining
                      \in {patches[k].cooldown_remaining, patches[k].cooldown_remaining - 1}
                /\ patches'[k].cooldown_remaining < patches[k].cooldown_remaining
                      => k = lastCall'.on
                /\ (k = lastCall'.on /\ patches[k].cooldown_remaining > 0) =>
                      /\ patches'[k].amount <= patches[k].amount
                      /\ patches'[k].scheduled =>
                            patches'[k].cooldown_remaining = patches[k].cooldown_remaining - 1
      ]_vars

\* a step() has counted the cooldown of a partly harvested renewable patch
\* down, and the patch has not regrown
CooledWithoutRegrowth ==
    /\ lastCall.op = "step"
    /\ patches[lastCall.on].resource_type = "renewable"
    /\ patches[lastCall.on].scheduled
    /\ patches[lastCall.on].cooldown_remaining > 0
    /\ patches[lastCall.on].cooldown_remaining < renewable_cooldown_steps
    /\ patches[lastCall.on].regen_rate = 0
    /\ patches[lastCall.on].amount > 0
    /\ patches[lastCall.on].amount < patches[lastCall.on].max_capacity

\* no cell holds two hubs
OneHubPerCell ==
    \A g, h \in 1..Len(hubs) : hubs[g] = hubs[h] => g = h

\* the hubs placed stay, and a step adds at most one, on a cell that holds a
\* renewable patch and no hub
HubsOnlyGrow ==
    /\ Len(hubs') >= Len(hubs)
    /\ \A h \in 1..Len(hubs) : hubs'[h] = hubs[h]
    /\ Len(hubs') > Len(hubs) =>
          /\ Len(hubs') = Len(hubs) + 1
          /\ \E k \in DOMAIN patches :
                /\ patches[k].pos = hubs'[Len(hubs')]
                /\ patches[k].resource_type = "renewable"
          /\ \A h \in 1..Len(hubs) : hubs[h] # hubs'[Len(hubs')]

\* C25: every cell holds at most one EnergyHub; a hub is created only on a
\* cell that holds a renewable patch and no hub; a hub once created is never
\* removed, so the hub positions only grow.
HubsAreSingleAndPermanent == []OneHubPerCell /\ [][HubsOnlyGrow]_vars

\* a hub placed in an earlier tick still stands on its renewable patch
HubStillStands ==
    /\ hubs # <<>>
    /\ \E k \in DOMAIN patches :
          patches[k].pos = hubs[1] /\ patches[k].resource_type = "renewable"
    /\ \E i \in DOMAIN agents :
          /\ buildLog[i].cell = hubs[1]
          /\ buildLog[i].tick + 2 <= tick

\* C26: a call of redistribute_to_neighbors on an agent with more than
\* min_keep leaves that agent with min_keep or more, and a call on an agent
\* with min_keep or less changes no agent's energy.
GiverKeepsFloor ==
    [][lastCall'.op = "redistribute" =>
          /\ agents[lastCall'.on].energy > min_keep =>
                agents'[lastCall'.on].energy >= min_keep
          /\ agents[lastCall'.on].energy <= min_keep =>
                \A a \in DOMAIN agents : agents'[a].energy = agents[a].energy
      ]_vars

\* a giver with the share_fraction it was constructed with has served every
\* needy neighbour and still holds more than min_keep
GaveAndKeptFloor ==
    /\ lastCall.op = "redistribute"
    /\ agents[lastCall.on].share_fraction = share_fraction
    /\ lastCall.needy >= 2
    /\ lastCall.served = lastCall.needy
    /\ agents[lastCall.on].energy > min_keep

\* every agent of the world is a socialist or a green_socialist
FamilyWorld == \A i \in DOMAIN agents : agents[i].ideology \in SocialistFamily

\* no agent holds more than energy_cap, so none passes the guard of the
\* sharing on the move
NoneAboveCap ==
    FamilyWorld =>
        \A i \in DOMAIN agents :
            /\ agents[i].energy <= energy_cap
            /\ ~(agents[i].energy > min_keep + rich_margin)

\* a step of an agent that is not mining gives no energy to any other agent
NoSharingOnTheMove ==
    (FamilyWorld /\ phase = "agent" /\ ~agents[cursor].mining) =>
        \A a \in DOMAIN agents \ {cursor} : agents'[a].energy = agents[a].energy

\* C27: in a world of socialists and green_socialists with the tuning of
\* __init__, no agent holds more than energy_cap in any state between steps,
\* tick boundaries included; the guard energy > min_keep + 6 of the sharing on
\* the move is therefore never true and no travelling step redistributes.
FamilyNeverSharesOnTheMove == []NoneAboveCap /\ [][NoSharingOnTheMove]_vars

\* in a world of the socialist family where the cap has skimmed an agent, an
\* agent with a surplus and a needy neighbour is about to take a step on the
\* move
SurplusOnTheMove ==
    /\ FamilyWorld
    /\ community_pool
         > Mul(tithe_rate, SumEnergy([agents |-> [a \in DOMAIN agents |->
                                        [energy |-> agents[a].total_collected_energy]]],
                                     DOMAIN agents))
    /\ phase = "agent"
    /\ ~agents[cursor].mining
    /\ agents[cursor].energy > min_keep
    /\ Needy(World, cursor) # <<>>

\* every agent of the world is a socialist
AllSocialist == \A i \in DOMAIN agents : agents[i].ideology = "socialist"

\* no hub stands and no agent has build progress
NothingBuilt ==
    AllSocialist =>
        /\ hubs = <<>>
        /\ \A i \in DOMAIN agents : agents[i].build_counter = 0

\* a socialist that arrives on its target cell is the only agent there
ArrivesAlone ==
    (AllSocialist /\ ArrivesOnTarget) =>
        \A a \in DOMAIN agents \ {cursor} : agents'[a].pos # FamilyTarget(cursor)

\* C28: in a world whose agents are all socialists no EnergyHub is ever
\* placed and build_counter never leaves 0: a socialist arriving on its
\* target cell, which held no agent when it was chosen, is the only agent
\* signalling intent there, so the partner count stays below 2.
SocialistsNeverBuild == []NothingBuilt /\ [][ArrivesAlone]_vars

\* in a world of socialists, two of them signalling intent stand on the same
\* live renewable patch with energy to build, and no hub stands
SocialistsTogetherUnbuilt ==
    /\ AllSocialist
    /\ hubs = <<>>
    /\ \E c \in Cells :
          /\ LivePatchAt(World, c, "renewable") # None
          /\ Cardinality({a \in IntentAt(agents, c) :
                             agents[a].energy >= build_min_energy}) >= 2
====
